---- MODULE Spec2Model ----
(***************************************************************************)
(* Model of threestation/config.py: module start-up (wave type, operator,  *)
(* dispersion tables, _check, _meta, _cp_fparam) and the functions the     *)
(* pipeline calls afterwards (group_sta, get_order, get_pred_pv, get_fnm). *)
(*                                                                         *)
(* Conventions                                                             *)
(*   - Python None for a string-valued argument is the string None below;  *)
(*     an optional non-string value is a set: {} is None, {v} is the value.*)
(*   - A path is the sequence of its components; os.path.join appends.     *)
(*   - A dict is a function whose DOMAIN is the set of keys.               *)
(*   - Python indices are 0-based, sequences here are 1-based.             *)
(***************************************************************************)
EXTENDS Naturals, Sequences, FiniteSets, TLC

VARIABLES
    make_doc,          \* line 18
    PARAM,             \* line 19 / 291: the parsed parameter file
    disk,              \* contents of the files the module reads
    pc,                \* position of the module start-up (lines 289-325)
    err,               \* the exception that ended start-up, if any
    USE_CW, USE_DW, CONV, CORR,
    PHPRPER, PHPRVEL, PRED_PV,
    STA2NET, STNM2LOLA, ALL_STATION,
    RECEIVER_STATION, RECEIVER_GROUP, SOURCE_STATION,
    dirs,              \* directories made by my.sys_tool.mkdir
    fparams,           \* indices n for which <meta>/param.yml_n exists
    loads,             \* number of _meta calls made so far
    call               \* the last call of a pipeline-facing function

vars == <<make_doc, PARAM, disk, pc, err, USE_CW, USE_DW, CONV, CORR,
          PHPRPER, PHPRVEL, PRED_PV, STA2NET, STNM2LOLA, ALL_STATION,
          RECEIVER_STATION, RECEIVER_GROUP, SOURCE_STATION,
          dirs, fparams, loads, call>>

catalog == <<STA2NET, STNM2LOLA, ALL_STATION,
             RECEIVER_STATION, RECEIVER_GROUP, SOURCE_STATION>>

flags == <<USE_CW, USE_DW, CONV, CORR>>

-----------------------------------------------------------------------------
(* Bounds of the model *)

MaxLines == 2      \* lines of the station-list file
MaxRows == 2       \* rows of the receiver-role and source-role files
MaxLoads == 2      \* calls of _meta in one run
MaxLst == 3        \* length of the list given to get_order / group_sta
MaxLabels == 3     \* length of the label list given to group_sta
MaxKeys == 2       \* keys of the pair-indexed dispersion table

-----------------------------------------------------------------------------
(* Python values *)

None == "<None>"
NoKey == "<no such key>"

\* str(x) as an f-string renders it
Str(x) == IF x = None THEN "None" ELSE x

\* repr(x) as list.index puts it in its message
Repr(x) == IF x = None THEN "None" ELSE "'" \o x \o "'"

\* Sequences over S of length at most n
SeqUpTo(S, n) == UNION {[1..k -> S] : k \in 0..n}

\* list.index(x): 0-based position of the first occurrence
RECURSIVE index(_, _)
index(lst, x) ==
    IF lst[1] = x THEN 0 ELSE 1 + index(Tail(lst), x)

Elems(lst) == {lst[i] : i \in 1..Len(lst)}

\* d[key] = v on a dict
DictSet(d, key, v) ==
    [k \in DOMAIN d \cup {key} |-> IF k = key THEN v ELSE d[k]]

\* str.lower() on the strings the parameter file may hold
lower(s) ==
    CASE s = "Coda" -> "coda"
      [] s = "CW" -> "cw"
      [] s = "Coda-Wave" -> "coda-wave"
      [] s = "Direct-Wave" -> "direct-wave"
      [] s = "DW" -> "dw"
      [] s = "Conv" -> "conv"
      [] s = "Correlation" -> "correlation"
      [] s = "Bogus" -> "bogus"
      [] OTHER -> s

\* str.upper() on the kinds given to get_fnm
upper(s) ==
    CASE s = "i2" -> "I2"
      [] s = "i2_path" -> "I2_PATH"
      [] s = "source" -> "SOURCE"
      [] s = "c3" -> "C3"
      [] s = "i3_rand" -> "I3_RAND"
      [] s = "i2_lag_raw" -> "I2_LAG_RAW"
      [] s = "bogus" -> "BOGUS"
      [] OTHER -> s

\* float(s) on the coordinate tokens of the station-list file
float(s) ==
    CASE s = "10" -> 10
      [] s = "11" -> 11
      [] s = "20" -> 20
      [] s = "21" -> 21

NoErr == [type |-> "none", site |-> "none", msg |-> ""]
Raise(type, site, msg) == [type |-> type, site |-> site, msg |-> msg]

-----------------------------------------------------------------------------
(* The parameter file and the files it names *)

BaseParam ==
    [dir |-> [project |-> "proj", out |-> "out", meta |-> "meta",
              I2 |-> "I2", I3 |-> "I3", I3_rand |-> "I3_rand"],
     sfx |-> [I2 |-> "_I2.lst", source |-> "_src.lst"],
     misc |-> [wavetype |-> "Coda"],
     interferometry |->
         [operator |-> "corr", type |-> NoKey, spz |-> FALSE, Welch |-> FALSE,
          nlag |-> 2, flip_nlag |-> TRUE,
          pred_pv_1d |-> None, pred_pv_2d |-> None],
     write |-> [lag |-> FALSE],
     fstation |-> [all |-> [name |-> "station.lst"],
                   receiver |-> [name |-> "receiver.lst", group |-> FALSE],
                   source |-> "source.lst"]]

\* line.split() of the lines a station-list file may hold
StationLines ==
    {<<"N1", "A", "10", "20">>, <<"N2", "A", "11", "21">>,
     <<"N1", "B", "10", "21">>, <<"N2", "C", "11", "20">>}

Curve(per, pv) == <<per, pv>>
GlobalCurve == Curve(<<5, 10>>, <<30, 35>>)
CurveX == Curve(<<5, 10>>, <<31, 36>>)
CurveY == Curve(<<4, 8>>, <<29, 33>>)

BaseDisk ==
    [stations |-> <<<<"N1", "A", "10", "20">>, <<"N1", "B", "10", "21">>>>,
     receiver |-> <<<<"A", "1">>, <<"B", "2">>>>,
     source |-> <<<<"A", "1">>>>,
     pv1d |-> GlobalCurve,
     pv2d |-> <<>>]

\* DIROUT = join(PARAM['dir']['project'], PARAM['dir']['out'])      (line 292)
DIROUT == <<PARAM.dir.project, PARAM.dir.out>>


-----------------------------------------------------------------------------
(* group_sta (lines 61-80).  num is list(set(lnum)): the distinct labels in *)
(* the order the set iterates them, which the caller of this operator      *)
(* chooses among all orders.                                               *)

Orders(S) ==
    {s \in [1..Cardinality(S) -> S] : \A i, j \in DOMAIN s : s[i] = s[j] => i = j}

\* the stations st of lst (with labels lnum) having (label = lab) = same
RECURSIVE GroupOf(_, _, _, _)
GroupOf(lst, lnum, lab, same) ==
    IF lst = <<>> THEN <<>>
    ELSE (IF (lnum[1] = lab) = same THEN <<lst[1]>> ELSE <<>>)
             \o GroupOf(Tail(lst), Tail(lnum), lab, same)

\* group_sta that rejects only fewer than two distinct labels
group_sta_at_least_two(lst, lnum, num) ==
    IF Len(num) < 2
    THEN [ok |-> FALSE, val |-> <<>>,
          err |-> Raise("ValueError", "group_sta", "# of group != 2.")]
    ELSE IF Len(lst) > Len(lnum)
    THEN [ok |-> FALSE, val |-> <<>>,
          err |-> Raise("IndexError", "group_sta", "list index out of range")]
    ELSE [ok |-> TRUE,
          val |-> <<GroupOf(lst, SubSeq(lnum, 1, Len(lst)), num[1], TRUE),
                    GroupOf(lst, SubSeq(lnum, 1, Len(lst)), num[1], FALSE)>>,
          err |-> NoErr]

group_sta(lst, lnum, num) ==
    IF Len(num) # 2
    THEN [ok |-> FALSE, val |-> <<>>,
          err |-> Raise("ValueError", "group_sta", "# of group != 2.")]
    ELSE IF Len(lst) > Len(lnum)
    THEN [ok |-> FALSE, val |-> <<>>,
          err |-> Raise("IndexError", "group_sta", "list index out of range")]
    ELSE [ok |-> TRUE,
          val |-> <<GroupOf(lst, SubSeq(lnum, 1, Len(lst)), num[1], TRUE),
                    GroupOf(lst, SubSeq(lnum, 1, Len(lst)), num[1], FALSE)>>,
          err |-> NoErr]

-----------------------------------------------------------------------------
(* get_order (lines 83-93) *)

\* get_order that compares the two positions the other way round
get_order_reversed(lst, st1, st2) ==
    IF st1 \notin Elems(lst)
    THEN [ok |-> FALSE, val |-> <<>>,
          err |-> Raise("ValueError", "list.index", Repr(st1) \o " is not in list")]
    ELSE IF st2 \notin Elems(lst)
    THEN [ok |-> FALSE, val |-> <<>>,
          err |-> Raise("ValueError", "list.index", Repr(st2) \o " is not in list")]
    ELSE LET id1 == index(lst, st1)
             id2 == index(lst, st2)
         IN  [ok |-> TRUE,
              val |-> IF id1 >= id2 THEN <<st1, st2>> ELSE <<st2, st1>>,
              err |-> NoErr]

\* get_order that returns the two stations as given
get_order_as_given(lst, st1, st2) ==
    IF st1 \notin Elems(lst)
    THEN [ok |-> FALSE, val |-> <<>>,
          err |-> Raise("ValueError", "list.index", Repr(st1) \o " is not in list")]
    ELSE IF st2 \notin Elems(lst)
    THEN [ok |-> FALSE, val |-> <<>>,
          err |-> Raise("ValueError", "list.index", Repr(st2) \o " is not in list")]
    ELSE [ok |-> TRUE, val |-> <<st1, st2>>, err |-> NoErr]

get_order(lst, st1, st2) ==
    IF st1 \notin Elems(lst)
    THEN [ok |-> FALSE, val |-> <<>>,
          err |-> Raise("ValueError", "list.index", Repr(st1) \o " is not in list")]
    ELSE IF st2 \notin Elems(lst)
    THEN [ok |-> FALSE, val |-> <<>>,
          err |-> Raise("ValueError", "list.index", Repr(st2) \o " is not in list")]
    ELSE LET id1 == index(lst, st1)
             id2 == index(lst, st2)
         IN  [ok |-> TRUE,
              val |-> IF id1 <= id2 THEN <<st1, st2>> ELSE <<st2, st1>>,
              err |-> NoErr]

-----------------------------------------------------------------------------
(* get_pred_pv (lines 96-116).  The result records whether the two arrays  *)
(* went through np.asarray (line 116) or are returned as stored (line 111).*)

\* '_'.join([a, b, c, d])
join4(a, b, c, d) == a \o "_" \o b \o "_" \o c \o "_" \o d

\* truth value of PRED_PV: None and the empty dict are false
Truthy(opt) == opt # {} /\ \E t \in opt : DOMAIN t # {}

\* get_pred_pv that looks the reversed key up before the forward key
get_pred_pv_reverse_first(n1, s1, n2, s2, pair, pair_r) ==
    LET tbl == CHOOSE t \in PRED_PV : TRUE
        p == IF pair = None THEN join4(n1, s1, n2, s2) ELSE pair
        pr == IF pair = None THEN join4(n2, s2, n1, s1) ELSE pair_r
    IN  IF ~Truthy(PRED_PV)
        THEN [per |-> PHPRPER, pv |-> PHPRVEL, asarray |-> TRUE]
        ELSE IF pr \in DOMAIN tbl
        THEN [per |-> tbl[pr][1], pv |-> tbl[pr][2], asarray |-> TRUE]
        ELSE IF p \in DOMAIN tbl
        THEN [per |-> tbl[p][1], pv |-> tbl[p][2], asarray |-> TRUE]
        ELSE [per |-> PHPRPER, pv |-> PHPRVEL, asarray |-> FALSE]

get_pred_pv(n1, s1, n2, s2, pair, pair_r) ==
    LET tbl == CHOOSE t \in PRED_PV : TRUE
        p == IF pair = None THEN join4(n1, s1, n2, s2) ELSE pair
        pr == IF pair = None THEN join4(n2, s2, n1, s1) ELSE pair_r
    IN  IF ~Truthy(PRED_PV)
        THEN [per |-> PHPRPER, pv |-> PHPRVEL, asarray |-> TRUE]
        ELSE IF p \in DOMAIN tbl
        THEN [per |-> tbl[p][1], pv |-> tbl[p][2], asarray |-> TRUE]
        ELSE IF pr \in DOMAIN tbl
        THEN [per |-> tbl[pr][1], pv |-> tbl[pr][2], asarray |-> TRUE]
        ELSE [per |-> PHPRPER, pv |-> PHPRVEL, asarray |-> FALSE]

-----------------------------------------------------------------------------
(* get_fnm (lines 119-204).  I2 is {} (None) or {path}.  made is the set   *)
(* of directories the call hands to my.sys_tool.mkdir.                     *)

basename(p) == IF p = <<>> THEN "" ELSE p[Len(p)]
dirname(p) == IF p = <<>> THEN <<>> ELSE SubSeq(p, 1, Len(p) - 1)

Returned(v, made) == [ok |-> TRUE, val |-> v, made |-> made, err |-> NoErr]
Raised(e) == [ok |-> FALSE, val |-> <<>>, made |-> {}, err |-> e]

\* the I2_LAG_RAW branch with the directory made whatever PARAM['write']['lag']
lag_raw_mkdir_always(stadir, I2) ==
    Returned(
        IF PARAM.interferometry.nlag = 2
        THEN <<stadir \o <<"P_" \o Str(I2)>>, stadir \o <<"N_" \o Str(I2)>>>>
        ELSE <<stadir \o <<"S_" \o Str(I2)>>>>,
        {stadir})

\* the I2_LAG_RAW branch (lines 191-200)
lag_raw(stadir, I2) ==
    Returned(
        IF PARAM.interferometry.nlag = 2
        THEN <<stadir \o <<"P_" \o Str(I2)>>, stadir \o <<"N_" \o Str(I2)>>>>
        ELSE <<stadir \o <<"S_" \o Str(I2)>>>>,
        IF PARAM.write.lag THEN {stadir} ELSE {})

get_fnm(kind0, sta1, sta2_0, sta3, lags, pre, I2_0) ==
    LET kind == upper(kind0)
        sta2 == IF I2_0 # {}
                THEN basename(dirname(CHOOSE q \in I2_0 : TRUE))
                ELSE sta2_0
        I2 == IF I2_0 # {} THEN basename(CHOOSE q \in I2_0 : TRUE) ELSE None
        ord == get_order(ALL_STATION, sta1, sta2)
        src == ord.val[1]
        rec == ord.val[2]
        stadir == DIROUT \o <<src>>
    IN  IF kind \in {"I2_PATH"}
        THEN Returned(DIROUT \o <<PARAM.dir.meta, PARAM.dir.out \o PARAM.sfx.I2>>, {})
        ELSE IF kind \in {"SOURCE", "SOURCE-STATION"}
        THEN Returned(DIROUT \o <<PARAM.dir.meta, PARAM.dir.out \o PARAM.sfx.source>>, {})
        ELSE IF ~ord.ok
        THEN Raised(ord.err)
        ELSE IF kind = "I2"
        THEN Returned(<<PARAM.dir.project, PARAM.dir.I2, src,
                        "COR_" \o src \o "_" \o rec \o ".SAC">>, {})
        ELSE IF kind = "I2_LAG_PROC"
        THEN Returned(DIROUT \o <<src,
                        Str(pre) \o "_COR_" \o src \o "_" \o rec \o ".SAC">>, {})
        ELSE IF kind = "C3"
        THEN Returned(DIROUT \o <<src, rec,
                        Str(sta3) \o "_" \o Str(lags) \o "_" \o src \o "_" \o rec
                            \o ".SAC">>, {})
        ELSE IF kind = "I3"
        THEN Returned(DIROUT \o <<PARAM.dir.I3, src,
                        "I3_" \o src \o "_" \o rec \o ".SAC">>, {})
        ELSE IF kind = "I3_RAND"
        THEN Returned(DIROUT \o <<PARAM.dir.I3_rand, src, rec,
                        "I3_" \o src \o "_" \o rec \o ".SAC">>, {})
        ELSE IF kind = "I2_LAG_RAW"
        THEN lag_raw(stadir, I2)
        ELSE Raised(Raise("ValueError", "get_fnm", "Unknow kind of file: " \o kind \o "."))

-----------------------------------------------------------------------------
(* _check (lines 210-229) *)

Passed(warned) == [ok |-> TRUE, warned |-> warned, err |-> NoErr]
Failed(e) == [ok |-> FALSE, warned |-> {}, err |-> e]

\* _check with the 4-lag rule nested under the coda branch
_check_lag_rule_under_coda ==
    LET p == PARAM
        warned == IF USE_CW /\ p.interferometry.spz
                  THEN {"Using stationary phase zone for coda"} ELSE {}
    IN  IF USE_CW /\ CONV
        THEN Failed(Raise("ValueError", "_check", "NO convolution of coda"))
        ELSE IF ~USE_CW /\ USE_DW /\ p.interferometry.Welch
        THEN Failed(Raise("ValueError", "_check",
                          "NOT use Welch's method for direct-wave"))
        ELSE IF USE_CW /\ p.interferometry.nlag = 4 /\ ~p.interferometry.flip_nlag
        THEN [ok |-> FALSE, warned |-> warned,
              err |-> Raise("NotImplementedError", "_check",
                            "4 lags MUST use the symmetric component")]
        ELSE Passed(warned)

_check ==
    LET p == PARAM
        warned == IF USE_CW /\ p.interferometry.spz
                  THEN {"Using stationary phase zone for coda"} ELSE {}
    IN  IF USE_CW /\ CONV
        THEN Failed(Raise("ValueError", "_check", "NO convolution of coda"))
        ELSE IF ~USE_CW /\ USE_DW /\ p.interferometry.Welch
        THEN Failed(Raise("ValueError", "_check",
                          "NOT use Welch's method for direct-wave"))
        ELSE IF p.interferometry.nlag = 4 /\ ~p.interferometry.flip_nlag
        THEN [ok |-> FALSE, warned |-> warned,
              err |-> Raise("NotImplementedError", "_check",
                            "4 lags MUST use the symmetric component")]
        ELSE Passed(warned)


-----------------------------------------------------------------------------
(* _meta (lines 232-264) *)

col_net == 0
col_sta == 1
col_lon == 2
col_lat == 3

\* lst[col] of a split line; Python raises IndexError when col >= len(lst)
HasCol(lst, col) == col < Len(lst)
Col(lst, col) == lst[col + 1]

\* my.fio.rcol(f, col)[0]: column col of the rows of a role file
rcol(rows, col) == [i \in 1..Len(rows) |-> Col(rows[i], col)]

\* the loop of lines 246-252 over the remaining lines, from the dicts and
\* the list as they are; it stops at the first line that raises
RECURSIVE ReadLines(_, _, _, _)
ReadLines(lines, s2n, lola, all) ==
    IF lines = <<>>
    THEN [ok |-> TRUE, STA2NET |-> s2n, STNM2LOLA |-> lola, ALL_STATION |-> all]
    ELSE LET lst == lines[1]
             key == Col(lst, col_sta)
             lola1 == DictSet(lola, key,
                              <<float(Col(lst, col_lon)), float(Col(lst, col_lat))>>)
         IN  IF ~(HasCol(lst, col_sta) /\ HasCol(lst, col_lon) /\ HasCol(lst, col_lat))
             THEN [ok |-> FALSE, STA2NET |-> s2n, STNM2LOLA |-> lola,
                   ALL_STATION |-> all]
             ELSE IF ~HasCol(lst, col_net)
             THEN [ok |-> FALSE, STA2NET |-> s2n, STNM2LOLA |-> lola1,
                   ALL_STATION |-> all]
             ELSE ReadLines(Tail(lines),
                            DictSet(s2n, key, Col(lst, col_net)),
                            lola1,
                            Append(all, key))

\* the globals after _meta, from the globals before it
_meta ==
    LET rd == ReadLines(disk.stations, STA2NET, STNM2LOLA, ALL_STATION)
    IN  IF ~rd.ok
        THEN [ok |-> FALSE,
              STA2NET |-> rd.STA2NET, STNM2LOLA |-> rd.STNM2LOLA,
              ALL_STATION |-> rd.ALL_STATION,
              RECEIVER_STATION |-> RECEIVER_STATION,
              RECEIVER_GROUP |-> RECEIVER_GROUP,
              SOURCE_STATION |-> SOURCE_STATION,
              err |-> Raise("IndexError", "_meta", "list index out of range")]
        ELSE [ok |-> TRUE,
              STA2NET |-> rd.STA2NET, STNM2LOLA |-> rd.STNM2LOLA,
              ALL_STATION |-> rd.ALL_STATION,
              RECEIVER_STATION |-> rcol(disk.receiver, 0),
              RECEIVER_GROUP |-> IF PARAM.fstation.receiver.group
                                 THEN {rcol(disk.receiver, 1)} ELSE {},
              SOURCE_STATION |-> rcol(disk.source, 0),
              err |-> NoErr]

-----------------------------------------------------------------------------
(* Module start-up (lines 289-325) *)

CodaNames == {"cw", "coda", "coda wave", "coda-wave"}
DirectNames == {"dw", "direct wave", "direct-wave"}
ConvNames == {"conv", "convolution"}
CorrNames == {"corr", "correlation"}

NoCall == [fn |-> "none"]

\* lines 294-302
ParseWavetype ==
    /\ pc = "wavetype"
    /\ LET w == PARAM.misc.wavetype
       IN  IF lower(w) \in CodaNames
           THEN /\ USE_CW' = TRUE /\ USE_DW' = FALSE
                /\ pc' = "operator" /\ err' = err
           ELSE IF lower(w) \in DirectNames
           THEN /\ USE_CW' = FALSE /\ USE_DW' = TRUE
                /\ pc' = "operator" /\ err' = err
           ELSE /\ UNCHANGED <<USE_CW, USE_DW>>
                /\ pc' = "failed"
                /\ err' = Raise("ValueError", "wavetype",
                                "Unknown type of signal " \o w)
    /\ UNCHANGED <<make_doc, PARAM, disk, CONV, CORR, PHPRPER, PHPRVEL, PRED_PV,
                   catalog, dirs, fparams, loads, call>>

\* lines 304-312; the message of line 312 reads PARAM['interferometry']['type']
ParseOperator ==
    /\ pc = "operator"
    /\ LET o == PARAM.interferometry.operator
       IN  IF lower(o) \in ConvNames
           THEN /\ CONV' = TRUE /\ CORR' = FALSE
                /\ pc' = "pred_pv" /\ err' = err
           ELSE IF lower(o) \in CorrNames
           THEN /\ CORR' = TRUE /\ CONV' = FALSE
                /\ pc' = "pred_pv" /\ err' = err
           ELSE /\ UNCHANGED <<CONV, CORR>>
                /\ pc' = "failed"
                /\ err' = IF PARAM.interferometry.type = NoKey
                          THEN Raise("KeyError", "operator", "'type'")
                          ELSE Raise("ValueError", "operator",
                                     "Unknown operator " \o PARAM.interferometry.type)
    /\ UNCHANGED <<make_doc, PARAM, disk, USE_CW, USE_DW, PHPRPER, PHPRVEL, PRED_PV,
                   catalog, dirs, fparams, loads, call>>

\* lines 314-321
LoadPredPV ==
    /\ pc = "pred_pv"
    /\ IF PARAM.interferometry.pred_pv_1d # None
       THEN PHPRPER' = disk.pv1d[1] /\ PHPRVEL' = disk.pv1d[2]
       ELSE UNCHANGED <<PHPRPER, PHPRVEL>>
    /\ IF PARAM.interferometry.pred_pv_2d # None
       THEN PRED_PV' = {disk.pv2d}
       ELSE UNCHANGED PRED_PV
    /\ pc' = "check"
    /\ UNCHANGED <<make_doc, PARAM, disk, err, flags, catalog, dirs, fparams,
                   loads, call>>

\* line 323
Check ==
    /\ pc = "check"
    /\ LET r == _check
       IN  /\ pc' = IF r.ok THEN "meta" ELSE "failed"
           /\ err' = r.err
           /\ call' = [fn |-> "_check", res |-> r]
    /\ UNCHANGED <<make_doc, PARAM, disk, flags, PHPRPER, PHPRVEL, PRED_PV,
                   catalog, dirs, fparams, loads>>

\* line 324, and a later call of _meta by the running program
Meta ==
    /\ pc \in {"meta", "ready"}
    /\ loads < MaxLoads
    /\ LET r == _meta
       IN  /\ STA2NET' = r.STA2NET
           /\ STNM2LOLA' = r.STNM2LOLA
           /\ ALL_STATION' = r.ALL_STATION
           /\ RECEIVER_STATION' = r.RECEIVER_STATION
           /\ RECEIVER_GROUP' = r.RECEIVER_GROUP
           /\ SOURCE_STATION' = r.SOURCE_STATION
           /\ call' = [fn |-> "_meta", res |-> [ok |-> r.ok, err |-> r.err]]
           /\ IF pc = "meta"
              THEN /\ pc' = IF r.ok THEN "cp" ELSE "failed"
                   /\ err' = r.err
              ELSE UNCHANGED <<pc, err>>
    /\ loads' = loads + 1
    /\ UNCHANGED <<make_doc, PARAM, disk, flags, PHPRPER, PHPRVEL, PRED_PV,
                   dirs, fparams>>

\* _cp_fparam (lines 267-286), called at line 325
CpFparam ==
    /\ pc = "cp"
    /\ dirs' = dirs \cup {DIROUT \o <<PARAM.dir.meta>>}
    /\ LET n == CHOOSE k \in 0..Cardinality(fparams) :
                    k \notin fparams /\ \A m \in 0..k : m = k \/ m \in fparams
       IN  fparams' = fparams \cup {n}
    /\ pc' = "ready"
    /\ UNCHANGED <<make_doc, PARAM, disk, err, flags, PHPRPER, PHPRVEL, PRED_PV,
                   catalog, loads, call>>

Startup ==
    \/ ParseWavetype
    \/ ParseOperator
    \/ LoadPredPV
    \/ Check
    \/ Meta
    \/ CpFparam

\* the module as imported with the parameter file P and the files D:
\* with make_doc set (line 18) lines 290-325 are skipped
InitWith(P, D) ==
    /\ make_doc \in BOOLEAN
    /\ PARAM = IF make_doc THEN <<>> ELSE P
    /\ disk = D
    /\ pc = IF make_doc THEN "doc" ELSE "wavetype"
    /\ err = NoErr
    /\ USE_CW = FALSE /\ USE_DW = FALSE /\ CONV = FALSE /\ CORR = FALSE
    /\ PHPRPER = <<>> /\ PHPRVEL = <<>> /\ PRED_PV = {}
    /\ STA2NET = <<>> /\ STNM2LOLA = <<>> /\ ALL_STATION = <<>>
    /\ RECEIVER_STATION = <<>> /\ RECEIVER_GROUP = {} /\ SOURCE_STATION = <<>>
    /\ dirs = {} /\ fparams = {} /\ loads = 0
    /\ call = NoCall

-----------------------------------------------------------------------------
(* Start-up and catalog: every parameter combination _check reads, over a  *)
(* fixed set of files; and every station-list and role file, under a fixed *)
(* valid parameter file.                                                   *)

WaveTypes == {"Coda", "cw", "Direct-Wave", "direct wave", "direct", "Bogus"}
Operators == {"Conv", "convolution", "corr", "Correlation", "xcorr"}
TypeKeys == {NoKey, "cross"}

StartupParams ==
    {[BaseParam EXCEPT !.misc.wavetype = w,
                       !.interferometry.operator = o,
                       !.interferometry.type = t,
                       !.interferometry.spz = z,
                       !.interferometry.Welch = e,
                       !.interferometry.nlag = n,
                       !.interferometry.flip_nlag = f] :
        w \in WaveTypes, o \in Operators, t \in TypeKeys,
        z \in BOOLEAN, e \in BOOLEAN, n \in {1, 2, 4}, f \in BOOLEAN}

ShortLine == <<"N1">>
CatalogRows == {<<"A", "1">>, <<"B", "2">>, <<"D", "1">>}
SourceRows == {<<"A">>, <<"D">>}

CatalogParams ==
    {[BaseParam EXCEPT !.fstation.receiver.group = g] : g \in BOOLEAN}

CatalogDisks ==
    {[BaseDisk EXCEPT !.stations = st, !.receiver = rc, !.source = so] :
        st \in SeqUpTo(StationLines \cup {ShortLine}, MaxLines),
        rc \in SeqUpTo(CatalogRows, MaxRows),
        so \in SeqUpTo(SourceRows, MaxRows)}

Init ==
    \/ \E P \in StartupParams : InitWith(P, BaseDisk)
    \/ \E P \in CatalogParams, D \in CatalogDisks : InitWith(P, D)

Next == Startup

Spec == Init /\ [][Next]_vars


-----------------------------------------------------------------------------
(* Calls of the pipeline-facing functions.  group_sta, get_order and       *)
(* get_pred_pv need nothing start-up defines; get_fnm needs DIROUT.        *)

Imported == pc \in {"ready", "doc"}

\* a call is made when no result is waiting to be taken by the caller
Pending == call.fn \in {"group_sta", "get_order", "get_pred_pv", "get_fnm"}

\* the caller takes the value, or the exception, the function handed back
Return ==
    /\ Pending
    /\ call' = NoCall
    /\ UNCHANGED <<make_doc, PARAM, disk, pc, err, flags, PHPRPER, PHPRVEL, PRED_PV,
                   catalog, dirs, fparams, loads>>

Stations == {"A", "B", "C"}
Labels == {"1", "2", "3"}

CallGroupSta ==
    /\ Imported /\ ~Pending
    /\ \E lst \in SeqUpTo(Stations, MaxLst), lnum \in SeqUpTo(Labels, MaxLabels) :
         \E num \in Orders(Elems(lnum)) :
            call' = [fn |-> "group_sta", lst |-> lst, lnum |-> lnum,
                     res |-> group_sta(lst, lnum, num)]
    /\ UNCHANGED <<make_doc, PARAM, disk, pc, err, flags, PHPRPER, PHPRVEL, PRED_PV,
                   catalog, dirs, fparams, loads>>

CallGetOrder ==
    /\ Imported /\ ~Pending
    /\ \E lst \in SeqUpTo(Stations, MaxLst), st1, st2 \in Stations \cup {None} :
            call' = [fn |-> "get_order", lst |-> lst, st1 |-> st1, st2 |-> st2,
                     res |-> get_order(lst, st1, st2)]
    /\ UNCHANGED <<make_doc, PARAM, disk, pc, err, flags, PHPRPER, PHPRVEL, PRED_PV,
                   catalog, dirs, fparams, loads>>

Nets == {"NA", "NB"}
Stas == {"S1", "S2"}
NetStas == {<<"NA", "S1">>, <<"NB", "S2">>}
PairKeys == {join4(a[1], a[2], b[1], b[2]) : a, b \in NetStas}

CallGetPredPv ==
    /\ Imported /\ ~Pending
    /\ \E n1, n2 \in Nets, s1, s2 \in Stas,
          pair \in {None, "NA_S1_NB_S2"}, pair_r \in {None, "NB_S2_NA_S1"} :
            call' = [fn |-> "get_pred_pv", n1 |-> n1, s1 |-> s1, n2 |-> n2,
                     s2 |-> s2, pair |-> pair, pair_r |-> pair_r,
                     res |-> get_pred_pv(n1, s1, n2, s2, pair, pair_r)]
    /\ UNCHANGED <<make_doc, PARAM, disk, pc, err, flags, PHPRPER, PHPRVEL, PRED_PV,
                   catalog, dirs, fparams, loads>>

Kinds ==
    {"I2_PATH", "i2_path", "SOURCE-STATION", "source", "I2", "i2", "I2_LAG_RAW",
     "I2_LAG_PROC", "C3", "I3", "i3_rand", "bogus"}

\* the optional arguments sta3, lags, pre: all left out, or all given
Labelled == {<<None, None, None>>, <<"C", "PN", "P">>}

\* paths of I2 files: one per directory named after a listed station, and
\* one under a directory no station is named after
I2Files ==
    {<<PARAM.dir.project, PARAM.dir.I2, a, "COR_" \o a \o "_" \o b \o ".SAC">> :
        a, b \in Elems(ALL_STATION)}
    \cup {<<PARAM.dir.project, PARAM.dir.I2, "Z", "COR_Z_A.SAC">>}

FnmCalls ==
    {[kind |-> k, sta1 |-> a, sta2 |-> b, sta3 |-> x[1], lags |-> x[2],
      pre |-> x[3], I2 |-> {}] :
        k \in Kinds, a, b \in Elems(ALL_STATION) \cup {None, "Z"}, x \in Labelled}
    \cup
    {[kind |-> k, sta1 |-> a, sta2 |-> None, sta3 |-> x[1], lags |-> x[2],
      pre |-> x[3], I2 |-> {f}] :
        k \in {"I2_LAG_RAW", "I3", "bogus"},
        a \in Elems(ALL_STATION) \cup {None, "Z"}, x \in Labelled, f \in I2Files}

CallGetFnm ==
    /\ pc = "ready" /\ ~Pending
    /\ \E c \in FnmCalls :
         LET r == get_fnm(c.kind, c.sta1, c.sta2, c.sta3, c.lags, c.pre, c.I2)
         IN  /\ call' = [fn |-> "get_fnm", args |-> c, res |-> r]
             /\ dirs' = dirs \cup r.made
    /\ UNCHANGED <<make_doc, PARAM, disk, pc, err, flags, PHPRPER, PHPRVEL, PRED_PV,
                   catalog, fparams, loads>>

-----------------------------------------------------------------------------
(* Station ordering: get_order and group_sta over every bounded input *)

InitOrdering == InitWith(BaseParam, BaseDisk)

NextOrdering ==
    \/ Startup
    \/ CallGetOrder
    \/ CallGroupSta
    \/ Return

SpecOrdering == InitOrdering /\ [][NextOrdering]_vars

-----------------------------------------------------------------------------
(* Dispersion: every pair table of at most MaxKeys keys, loaded or not *)

PairTables ==
    UNION {[K -> {CurveX, CurveY}] :
              K \in {S \in SUBSET PairKeys : Cardinality(S) <= MaxKeys}}

PvParams ==
    {[BaseParam EXCEPT !.interferometry.pred_pv_1d = f1,
                       !.interferometry.pred_pv_2d = f2] :
        f1 \in {None, "pv_1d.txt"}, f2 \in {None, "pv_2d.pk"}}

PvDisks == {[BaseDisk EXCEPT !.pv2d = t] : t \in PairTables}

InitPv == \E P \in PvParams, D \in PvDisks : InitWith(P, D)

NextPv ==
    \/ Startup
    \/ CallGetPredPv
    \/ Return

SpecPv == InitPv /\ [][NextPv]_vars

-----------------------------------------------------------------------------
(* File names: every station list of at most MaxStations lines over two    *)
(* stations, every lag count and both settings of PARAM['write']['lag']    *)

MaxStations == 3

FnmLines == {<<"N1", "A", "10", "20">>, <<"N1", "B", "10", "21">>}

FnmParams ==
    {[BaseParam EXCEPT !.interferometry.nlag = n, !.write.lag = w] :
        n \in {1, 2, 4}, w \in BOOLEAN}

FnmDisks ==
    {[BaseDisk EXCEPT !.stations = st] : st \in SeqUpTo(FnmLines, MaxStations)}

InitFnm == \E P \in FnmParams, D \in FnmDisks : InitWith(P, D)

NextFnm ==
    \/ Startup
    \/ CallGetFnm
    \/ Return

SpecFnm == InitFnm /\ [][NextFnm]_vars

-----------------------------------------------------------------------------
(* Claims on start-up and on the catalog *)

Started == ~make_doc

\* C2: a second _meta from the same, unchanged files leaves ALL_STATION,
\* the id-to-station dicts, the receiver and source lists and the group
\* labels as the first one left them.
C2_LoadIdempotent ==
    [][(loads = 1 /\ loads' = 2) => catalog' = catalog]_vars

C4_Coda == PARAM.misc.wavetype \in {"Coda", "cw"}
C4_Direct == PARAM.misc.wavetype \in {"Direct-Wave", "direct wave"}
C4_Convolution == PARAM.interferometry.operator \in {"Conv", "convolution"}
C4_Forbidden ==
    \/ C4_Coda /\ C4_Convolution
    \/ C4_Direct /\ PARAM.interferometry.Welch
    \/ PARAM.interferometry.nlag = 4 /\ ~PARAM.interferometry.flip_nlag

\* C4: _check raises exactly when coda meets convolution, or direct-wave
\* meets Welch, or 4 lags meet a disabled flip_nlag, whatever the wave type;
\* in every other configuration (coda with spz among them) start-up goes on.
C4_ValidateFailsExactly ==
    /\ (Started /\ pc = "failed" /\ err.site = "_check") => C4_Forbidden
    /\ (Started /\ pc \in {"meta", "cp", "ready"}) => ~C4_Forbidden
    /\ (Started /\ call.fn = "_check") => (call.res.ok <=> ~C4_Forbidden)

\* _check has rejected 4 lags without flip_nlag for a direct-wave run that
\* breaks no other rule
C4_Witness ==
    /\ Started /\ pc = "failed" /\ err.site = "_check"
    /\ C4_Direct /\ ~PARAM.interferometry.Welch
    /\ PARAM.interferometry.nlag = 4 /\ ~PARAM.interferometry.flip_nlag

C5_UnknownWavetype == PARAM.misc.wavetype \in {"Bogus"}
C5_UnknownOperator == PARAM.interferometry.operator \in {"xcorr"}

\* C5: an unknown wave-type string, and an unknown operator string, each end
\* start-up before _check and _meta with a ValueError whose message carries
\* the offending value; an unknown operator produces no other error.
C5_UnknownEnumNamed ==
    /\ (Started /\ C5_UnknownWavetype) =>
           \/ pc = "wavetype"
           \/ /\ pc = "failed" /\ err.type = "ValueError"
              /\ err.msg = "Unknown type of signal " \o PARAM.misc.wavetype
    /\ (Started /\ ~C5_UnknownWavetype /\ C5_UnknownOperator) =>
           \/ pc \in {"wavetype", "operator"}
           \/ /\ pc = "failed" /\ err.type = "ValueError"
              /\ err.msg = "Unknown operator " \o PARAM.interferometry.operator

\* C7: after a _meta that succeeded every receiver and every source is in
\* ALL_STATION and, with the group column configured, the group labels are
\* one per receiver with exactly two distinct values.
C7_LoadedCatalogValid ==
    (Started /\ pc \in {"cp", "ready"}) =>
        /\ Elems(RECEIVER_STATION) \subseteq Elems(ALL_STATION)
        /\ Elems(SOURCE_STATION) \subseteq Elems(ALL_STATION)
        /\ \A g \in RECEIVER_GROUP :
               Len(g) = Len(RECEIVER_STATION) /\ Cardinality(Elems(g)) = 2



-----------------------------------------------------------------------------
(* Claims on station ordering *)

\* 1-based place of the first occurrence of x in lst
Place(lst, x) ==
    CHOOSE i \in 1..Len(lst) : lst[i] = x /\ \A j \in 1..(i - 1) : lst[j] # x

\* the members of lst that are in S, in the order of lst
RECURSIVE Keep(_, _)
Keep(lst, S) ==
    IF lst = <<>> THEN <<>>
    ELSE (IF lst[1] \in S THEN <<lst[1]>> ELSE <<>>) \o Keep(Tail(lst), S)

\* every station of lst carries a single label: lnum has one entry per entry
\* of lst, and a station listed twice is listed with the same label
OneLabelPerStation(lst, lnum) ==
    /\ Len(lnum) = Len(lst)
    /\ \A i, j \in 1..Len(lst) : lst[i] = lst[j] => lnum[i] = lnum[j]

\* C6: with one label per station, group_sta raises its ValueError exactly
\* when the labels do not have two distinct values; otherwise the two groups
\* are non-empty, share no station, together hold every entry of the input
\* and each keeps the input's order.
C6_PartitionByGroup ==
    (call.fn = "group_sta" /\ OneLabelPerStation(call.lst, call.lnum)) =>
        LET r == call.res
            g0 == r.val[1]
            g1 == r.val[2]
        IN  /\ r.ok <=> Cardinality(Elems(call.lnum)) = 2
            /\ ~r.ok => r.err.type = "ValueError" /\ r.err.site = "group_sta"
            /\ r.ok =>
                  /\ g0 # <<>> /\ g1 # <<>>
                  /\ Elems(g0) \cap Elems(g1) = {}
                  /\ Elems(g0) \cup Elems(g1) = Elems(call.lst)
                  /\ Len(g0) + Len(g1) = Len(call.lst)
                  /\ g0 = Keep(call.lst, Elems(g0))
                  /\ g1 = Keep(call.lst, Elems(g1))

\* three stations with two labels were split into a group of two, which
\* are not neighbours in the input, and a group of one
C6_Witness ==
    /\ call.fn = "group_sta" /\ OneLabelPerStation(call.lst, call.lnum)
    /\ call.res.ok
    /\ call.lst = <<"B", "A", "C">>
    /\ <<"B", "C">> \in {call.res.val[1], call.res.val[2]}

\* C9: get_order returns (a, b) when a's place in the list is not after b's
\* and (b, a) otherwise, so the result does not depend on the order of the
\* two arguments and its first element is never after its second; when a or
\* b is not in the list it raises list.index's ValueError and returns nothing.
C9_CanonicalOrder ==
    call.fn = "get_order" =>
        LET lst == call.lst
            a == call.st1
            b == call.st2
            r == call.res
        IN  IF a \in Elems(lst) /\ b \in Elems(lst)
            THEN /\ r.ok
                 /\ r.val = IF Place(lst, a) <= Place(lst, b)
                            THEN <<a, b>> ELSE <<b, a>>
                 /\ r.val = get_order(lst, b, a).val
                 /\ Place(lst, r.val[1]) <= Place(lst, r.val[2])
            ELSE /\ ~r.ok /\ r.val = <<>>
                 /\ r.err.type = "ValueError" /\ r.err.site = "list.index"

\* get_order was given the later station first and swapped the two
C9_Witness ==
    /\ call.fn = "get_order" /\ call.res.ok
    /\ call.st1 # call.st2
    /\ call.res.val = <<call.st2, call.st1>>

-----------------------------------------------------------------------------
(* Claims on dispersion *)

C3_Global == [per |-> PHPRPER, pv |-> PHPRVEL]
C3_Stored(t, key) == [per |-> t[key][1], pv |-> t[key][2]]

\* C3: get_pred_pv(n1, s1, n2, s2) returns the global curve when PRED_PV is
\* None or empty; otherwise the curve under "n1_s1_n2_s2" if that key is
\* there, else the curve under "n2_s2_n1_s1" if that key is there, else the
\* global curve.
C3_DispersionLookup ==
    (call.fn = "get_pred_pv" /\ call.pair = None) =>
        LET fwd == call.n1 \o "_" \o call.s1 \o "_" \o call.n2 \o "_" \o call.s2
            rev == call.n2 \o "_" \o call.s2 \o "_" \o call.n1 \o "_" \o call.s1
            got == [per |-> call.res.per, pv |-> call.res.pv]
        IN  /\ PRED_PV = {} => got = C3_Global
            /\ \A t \in PRED_PV :
                  got = IF DOMAIN t = {} THEN C3_Global
                        ELSE IF fwd \in DOMAIN t THEN C3_Stored(t, fwd)
                        ELSE IF rev \in DOMAIN t THEN C3_Stored(t, rev)
                        ELSE C3_Global

\* both keys of the queried pair are in the table with different curves, and
\* the forward key's curve came back
C3_Witness ==
    /\ call.fn = "get_pred_pv" /\ call.pair = None
    /\ call.n1 = "NB" /\ call.s1 = "S2" /\ call.n2 = "NA" /\ call.s2 = "S1"
    /\ \E t \in PRED_PV :
          /\ {"NB_S2_NA_S1", "NA_S1_NB_S2"} \subseteq DOMAIN t
          /\ t["NB_S2_NA_S1"] # t["NA_S1_NB_S2"]
          /\ call.res.per = t["NB_S2_NA_S1"][1]
          /\ call.res.pv = t["NB_S2_NA_S1"][2]

-----------------------------------------------------------------------------
(* Claims on file names *)

PairKinds == {"I2", "I2_LAG_RAW", "I2_LAG_PROC", "C3", "I3", "I3_RAND"}
EnumeratedKinds == {"I2_PATH", "SOURCE-STATION"} \cup PairKinds

\* the two stations, the one listed first in ALL_STATION first
First(a, b) == IF Place(ALL_STATION, a) <= Place(ALL_STATION, b) THEN a ELSE b
Second(a, b) == IF Place(ALL_STATION, a) <= Place(ALL_STATION, b) THEN b ELSE a

\* C1: for every kind that takes a station pair and all a, b in ALL_STATION,
\* get_fnm(kind, a, b) returns what get_fnm(kind, b, a) returns, the other
\* arguments being the same; for kind I2 the file is COR_<first>_<second>
\* with <first> the station listed earlier in ALL_STATION.
C1_PairOrderIndependent ==
    (/\ call.fn = "get_fnm"
     /\ upper(call.args.kind) \in PairKinds
     /\ call.args.I2 = {}
     /\ {call.args.sta1, call.args.sta2} \subseteq Elems(ALL_STATION)) =>
        LET c == call.args
            a == c.sta1
            b == c.sta2
        IN  /\ call.res.ok
            /\ call.res = get_fnm(c.kind, b, a, c.sta3, c.lags, c.pre, c.I2)
            /\ upper(c.kind) = "I2" =>
                  call.res.val =
                      <<PARAM.dir.project, PARAM.dir.I2, First(a, b),
                        "COR_" \o First(a, b) \o "_" \o Second(a, b) \o ".SAC">>

\* the I2 file of a pair was asked for with the later station first
C1_Witness ==
    /\ call.fn = "get_fnm" /\ call.args.kind = "I2" /\ call.args.I2 = {}
    /\ ALL_STATION = <<"A", "B">>
    /\ call.args.sta1 = "B" /\ call.args.sta2 = "A"
    /\ call.res.ok /\ call.res.val[4] = "COR_A_B.SAC"

\* C8: for every kind outside the enumerated kinds get_fnm raises the
\* unknown-kind ValueError of line 202, whatever stations are given, and
\* returns no path and makes no directory.
C8_UnknownKindFails ==
    (call.fn = "get_fnm" /\ upper(call.args.kind) \notin EnumeratedKinds) =>
        /\ ~call.res.ok
        /\ call.res.err.type = "ValueError" /\ call.res.err.site = "get_fnm"
        /\ call.res.made = {}

\* the I2 file of the pair (x, y)
I2File(x, y) ==
    <<PARAM.dir.project, PARAM.dir.I2, First(x, y),
      "COR_" \o First(x, y) \o "_" \o Second(x, y) \o ".SAC">>

\* what I2_LAG_RAW returns under <out>/<src>/ for the base name nm
LagFiles(src, nm) ==
    IF PARAM.interferometry.nlag = 2
    THEN <<DIROUT \o <<src, "P_" \o nm>>, DIROUT \o <<src, "N_" \o nm>>>>
    ELSE <<DIROUT \o <<src, "S_" \o nm>>>>

\* C10 as stated: given the I2 path of a pair, I2_LAG_RAW returns P_<name>
\* and N_<name> (2 lags) or S_<name> (otherwise) under <out>/<src>/, <src>
\* being the canonical first station of that pair, and makes the directory
\* only when PARAM['write']['lag'] is set.
C10_LagRawFromI2Path ==
    \A x, y \in Elems(ALL_STATION) :
        (/\ call.fn = "get_fnm"
         /\ upper(call.args.kind) = "I2_LAG_RAW"
         /\ call.args.I2 = {I2File(x, y)}) =>
            /\ call.res.ok
            /\ call.res.val = LagFiles(First(x, y), basename(I2File(x, y)))
            /\ call.res.made \subseteq {DIROUT \o <<First(x, y)>>}
            /\ call.res.made # {} => PARAM.write.lag

\* C10 amended: given sta1 and an I2 path, I2_LAG_RAW takes the second
\* station (the name of the path's directory) and the base name from the
\* path; with both stations in ALL_STATION it returns P_<name> and N_<name>
\* (2 lags) or S_<name> (otherwise) under <out>/<src>/, <src> being the one
\* of the two listed first in ALL_STATION, which is the canonical first
\* station of the I2 pair when sta1 is a station of that pair, and it makes
\* that directory exactly when PARAM['write']['lag'] is set; otherwise it
\* raises list.index's ValueError and makes nothing.
C10_LagRawFromSta1AndI2Path ==
    (/\ call.fn = "get_fnm"
     /\ upper(call.args.kind) = "I2_LAG_RAW"
     /\ call.args.I2 # {}) =>
        \A f \in call.args.I2 :
            LET a == call.args.sta1
                d == f[Len(f) - 1]
                nm == f[Len(f)]
            IN  IF {a, d} \subseteq Elems(ALL_STATION)
                THEN /\ call.res.ok
                     /\ call.res.val = LagFiles(First(a, d), nm)
                     /\ call.res.made = IF PARAM.write.lag
                                        THEN {DIROUT \o <<First(a, d)>>} ELSE {}
                     /\ \A x, y \in Elems(ALL_STATION) :
                            (f = I2File(x, y) /\ a \in {x, y}) =>
                                First(a, d) = First(x, y)
                ELSE /\ ~call.res.ok
                     /\ call.res.err.site = "list.index"
                     /\ call.res.made = {}

\* with 2 lags and lag files not written, sta1 = B and the I2 file of the
\* pair (A, B) gave the two files under <out>/A and made no directory
C10_Witness ==
    /\ call.fn = "get_fnm" /\ call.args.kind = "I2_LAG_RAW"
    /\ ALL_STATION = <<"A", "B">>
    /\ call.args.sta1 = "B"
    /\ call.args.I2 = {<<"proj", "I2", "A", "COR_A_B.SAC">>}
    /\ PARAM.interferometry.nlag = 2 /\ ~PARAM.write.lag
    /\ call.res.ok /\ call.res.made = {}
    /\ call.res.val = <<<<"proj", "out", "A", "P_COR_A_B.SAC">>,
                        <<"proj", "out", "A", "N_COR_A_B.SAC">>>>

====
